---- MODULE Spec2Model ----
(***************************************************************************)
(* dev-connector: the REST handlers of routes/api/posts.js and             *)
(* routes/api/profile.js as a state machine over the document store.       *)
(*                                                                         *)
(* Every handler is an async function: it runs synchronously up to an      *)
(* await of a store round-trip, and other requests run in between.  One    *)
(* action of the model is one store round-trip together with the           *)
(* synchronous code that follows it up to the next await or the response.  *)
(* A store round-trip may fail (the handlers' catch blocks turn that into  *)
(* a 500 response).                                                        *)
(***************************************************************************)
EXTENDS Integers, Sequences, FiniteSets, TLC

\* ------------------------------------------------------------------ bounds
MaxPosts    == 1      \* post documents ever created
MaxProfiles == 2      \* profile documents ever created
MaxEntries  == 3      \* experience/education entries ever created

Users == {"u1", "u2", "u3"}

\* The requests the server has in flight at one time.
Slots == {1, 2}

\* A malformed document id in the URL (not a valid ObjectId).
BadId == 0
PostIds == 1..MaxPosts
PostIdInputs == {BadId} \cup PostIds

VARIABLES
    users,        \* User collection: the ids of the user records
    profiles,     \* Profile collection: _id -> document
    posts,        \* Post collection: _id -> document
    nextProfile,  \* next generated Profile _id
    nextPost,     \* next generated Post _id
    nextEntry,    \* next generated sub-document _id
    reqs,         \* the requests in flight: slot -> handler state
    resp,         \* the response the latest step sent (Idle: none), with its request
    acctDeleted,  \* history: the users whose account a request that ran alone has
                  \* deleted, and who have sent no request since
    client        \* the client's action creator in progress and what it dispatched

vars == <<users, profiles, posts, nextProfile, nextPost, nextEntry, reqs, resp, acctDeleted,
          client>>

store == <<users, profiles, posts>>

\* ------------------------------------------------------- JavaScript arrays
\* Array.prototype.unshift(x)
Unshift(arr, x) == <<x>> \o arr

\* Array.prototype.indexOf over the mapped keys: 0-based, -1 when absent
IndexOfKey(keys, k) ==
    IF \E i \in 1..Len(keys) : keys[i] = k
    THEN (CHOOSE i \in 1..Len(keys) : keys[i] = k /\ \A j \in 1..(i-1) : keys[j] # k) - 1
    ELSE -1

\* Array.prototype.splice(start, 1): a negative start counts from the end
Splice1(arr, start) ==
    LET n  == Len(arr)
        s0 == IF start < 0 THEN (IF n + start < 0 THEN 0 ELSE n + start)
              ELSE (IF start > n THEN n ELSE start)
    IN  [i \in 1..(IF s0 < n THEN n - 1 ELSE n) |-> IF i <= s0 THEN arr[i] ELSE arr[i+1]]

LikeUsers(likes) == [i \in 1..Len(likes) |-> likes[i].user]

\* ---------------------------------------------------------- request slots
\* op, user, target, body: the request; pc, local, out, status: the handler's
\* position, what it read, what it writes or returns, the status it answered.
\* History: after -- the request follows its user's account deletion;
\* alone -- a delete-account request that no other request has run beside;
\* over -- the stored list that the request's save has replaced.
Idle == [op |-> "none", user |-> "", pc |-> "idle", target |-> 0,
         body |-> <<>>, local |-> <<>>, status |-> 0, out |-> <<>>,
         after |-> FALSE, alone |-> FALSE, over |-> <<>>]

IsFree(s) == reqs[s].pc = "idle"

\* A request arrives: the auth middleware has resolved the token to user u.
\* (Slots are interchangeable: a request takes the lowest free one.)
Arrive(s, u) ==
    /\ IsFree(s)
    /\ \A t \in Slots : t < s => ~IsFree(t)
    /\ acctDeleted' = acctDeleted \ {u}

Begin(op, u, id, body) ==
    [Idle EXCEPT !.op = op, !.user = u, !.target = id, !.body = body,
                 !.after = (u \in acctDeleted),
                 !.alone = (op = "deleteAccount" /\ \A t \in Slots : IsFree(t))]

\* Slot s takes a step and becomes r: the other requests are alone no longer.
Step(s, r) == [t \in Slots |-> IF t = s THEN r ELSE [reqs[t] EXCEPT !.alone = FALSE]]

\* res.status(code).json(payload) ends the handler: the slot is free again.
Respond(s, r, code, payload) ==
    /\ resp' = [r EXCEPT !.pc = "done", !.status = code, !.out = payload]
    /\ reqs' = Step(s, Idle)

\* catch (err) { res.status(500).send("Server error") }
\* (of a request that failed, resp keeps the operation alone)
ServerError(s, r) == Respond(s, [Idle EXCEPT !.op = r.op], 500, <<"Server error">>)

\* The handler suspends at its next await.
Await(s, r) ==
    /\ reqs' = Step(s, r)
    /\ resp' = Idle

SaveListMerged(stored, written) ==
    written \o SelectSeq(stored, LAMBDA x : \A i \in 1..Len(written) : written[i] # x)

\* What document.save() makes of a list the handler changed: the store sets the
\* field to the handler's list, whatever the stored list has become since the read.
SaveList(stored, written) == written

\* ------------------------------------------------------------------ posts
PostTexts == {"", "hello"}

\* POST api/posts
CreatePost(s, u, text) ==
    /\ Arrive(s, u)
    /\ nextPost <= MaxPosts
    /\ LET r == Begin("createPost", u, 0, <<text>>) IN
       \/ /\ text = ""                       \* validation: text is required
          /\ Respond(s, r, 400, <<"errors">>)
       \/ /\ text # ""                       \* User.findById
          /\ \/ ServerError(s, r)
             \/ /\ u \notin users            \* user.name on null throws
                /\ ServerError(s, r)
             \/ /\ u \in users
                /\ Await(s, [r EXCEPT !.pc = "save",
                                      !.local = <<[id |-> 0, user |-> u, name |-> u, text |-> text,
                                                   likes |-> <<>>, comments |-> <<>>]>>])
    /\ UNCHANGED <<store, nextProfile, nextPost, nextEntry, client>>

CreatePostSave(s) ==
    /\ reqs[s].op = "createPost" /\ reqs[s].pc = "save"
    /\ \/ /\ ServerError(s, reqs[s])
          /\ UNCHANGED <<posts, nextPost>>
       \/ LET post == [reqs[s].local[1] EXCEPT !.id = nextPost] IN
          /\ posts' = [i \in DOMAIN posts \cup {nextPost} |->
                          IF i = nextPost THEN post ELSE posts[i]]
          /\ nextPost' = nextPost + 1
          /\ Respond(s, [reqs[s] EXCEPT !.local = <<>>], 200, <<post>>)
    /\ UNCHANGED <<users, profiles, nextProfile, nextEntry, acctDeleted, client>>

NotOwnerInverted(post, u) == post.user = u

\* post.user.toString() !== req.user.id
NotOwner(post, u) == post.user # u

\* DELETE api/posts/:id
DeletePost(s, u, id) ==
    /\ Arrive(s, u)
    /\ LET r == Begin("deletePost", u, id, <<>>) IN
       \/ ServerError(s, r)
       \/ /\ id = BadId                      \* err.kind == "ObjectId"
          /\ Respond(s, r, 404, <<"Post not found">>)
       \/ /\ id # BadId /\ id \notin DOMAIN posts
          /\ Respond(s, r, 404, <<"Post not found">>)
       \/ /\ id \in DOMAIN posts
          /\ IF NotOwner(posts[id], u)
             THEN Respond(s, r, 401, <<"User not authorised">>)
             ELSE Await(s, [r EXCEPT !.pc = "remove"])
    /\ UNCHANGED <<store, nextProfile, nextPost, nextEntry, client>>

DeletePostRemove(s) ==
    /\ reqs[s].op = "deletePost" /\ reqs[s].pc = "remove"
    /\ \/ /\ ServerError(s, reqs[s])
          /\ UNCHANGED posts
       \/ /\ posts' = [i \in DOMAIN posts \ {reqs[s].target} |-> posts[i]]
          /\ Respond(s, reqs[s], 200, <<"Post removed">>)
    /\ UNCHANGED <<users, profiles, nextProfile, nextPost, nextEntry, acctDeleted, client>>

AlreadyLikedHeadOnly(likes, u) == Len(likes) > 0 /\ likes[1].user = u

AlreadyLikedTwice(likes, u) ==
    Cardinality({i \in 1..Len(likes) : likes[i].user = u}) > 1

\* post.likes.filter((like) => like.user.toString() === req.user.id).length > 0
AlreadyLiked(likes, u) ==
    Cardinality({i \in 1..Len(likes) : likes[i].user = u}) > 0

\* post.likes.unshift({ user: req.user.id })
AddLike(likes, u) == Unshift(likes, [user |-> u])

\* PUT api/posts/like/:id
Like(s, u, id) ==
    /\ Arrive(s, u)
    /\ LET r == Begin("like", u, id, <<>>) IN
       \/ ServerError(s, r)
       \/ /\ id \notin DOMAIN posts          \* CastError, or post.likes on null throws
          /\ ServerError(s, r)
       \/ /\ id \in DOMAIN posts
          /\ LET likes == posts[id].likes IN
             IF AlreadyLiked(likes, u)
             THEN Respond(s, [r EXCEPT !.local = <<likes>>], 400, <<"Post already liked">>)
             ELSE Await(s, [r EXCEPT !.pc = "save", !.local = <<likes>>,
                                     !.out = <<AddLike(likes, u)>>])
    /\ UNCHANGED <<store, nextProfile, nextPost, nextEntry, client>>

LikeRemoveIndexUnmapped(likes, u) == -1

\* const removeIndex = post.likes.map(...).indexOf(req.user.id)
LikeRemoveIndex(likes, u) == IndexOfKey(LikeUsers(likes), u)

\* post.likes.splice(removeIndex, 1)
RemoveLike(likes, u) == Splice1(likes, LikeRemoveIndex(likes, u))

\* post.likes.filter((like) => like.user.toString() === req.user.id).length === 0
NotYetLiked(likes, u) ==
    Cardinality({i \in 1..Len(likes) : likes[i].user = u}) = 0

\* PUT api/posts/unlike/:id
Unlike(s, u, id) ==
    /\ Arrive(s, u)
    /\ LET r == Begin("unlike", u, id, <<>>) IN
       \/ ServerError(s, r)
       \/ /\ id \notin DOMAIN posts
          /\ ServerError(s, r)
       \/ /\ id \in DOMAIN posts
          /\ LET likes == posts[id].likes IN
             IF NotYetLiked(likes, u)
             THEN Respond(s, [r EXCEPT !.local = <<likes>>], 400, <<"Post has not yet been liked">>)
             ELSE Await(s, [r EXCEPT !.pc = "save", !.local = <<likes>>,
                                     !.out = <<RemoveLike(likes, u)>>])
    /\ UNCHANGED <<store, nextProfile, nextPost, nextEntry, client>>

\* await post.save(); res.json(post.likes)  -- the modified likes array is
\* written whole; a document that is gone is not created again.
LikesSave(s) ==
    /\ reqs[s].op \in {"like", "unlike"} /\ reqs[s].pc = "save"
    /\ \/ /\ ServerError(s, reqs[s])
          /\ UNCHANGED posts
       \/ /\ reqs[s].target \notin DOMAIN posts
          /\ Respond(s, reqs[s], 200, reqs[s].out)
          /\ UNCHANGED posts
       \/ /\ reqs[s].target \in DOMAIN posts
          /\ posts' = [posts EXCEPT ![reqs[s].target].likes = SaveList(@, reqs[s].out[1])]
          /\ Respond(s, [reqs[s] EXCEPT !.over = IF reqs[s].op = "like"
                                                  THEN <<posts[reqs[s].target].likes>>
                                                  ELSE <<>>], 200, reqs[s].out)
    /\ UNCHANGED <<users, profiles, nextProfile, nextPost, nextEntry, acctDeleted, client>>

\* --------------------------------------------------------------- comments
CommentTexts == {"", "nice"}

CommentUsers(comments) == [i \in 1..Len(comments) |-> comments[i].user]
CommentIds(comments) == [i \in 1..Len(comments) |-> comments[i].id]

\* POST api/posts/comment/:id: validation, then await User.findById(req.user.id)
AddComment(s, u, id, text) ==
    /\ Arrive(s, u)
    /\ nextEntry <= MaxEntries
    /\ LET r == Begin("addComment", u, id, <<text>>) IN
       \/ /\ text = ""
          /\ Respond(s, r, 400, <<"errors">>)
       \/ /\ text # ""
          /\ \/ ServerError(s, r)
             \/ Await(s, [r EXCEPT !.pc = "post", !.local = <<u \in users>>])
    /\ UNCHANGED <<store, nextProfile, nextPost, nextEntry, client>>

\* await Post.findById(req.params.id); newComment; post.comments.unshift(newComment)
AddCommentPost(s) ==
    /\ reqs[s].op = "addComment" /\ reqs[s].pc = "post"
    /\ LET r == reqs[s] IN
       \/ /\ ServerError(s, r)
          /\ UNCHANGED nextEntry
       \/ /\ ~r.local[1] \/ r.target \notin DOMAIN posts  \* user.name, post.comments on null
          /\ ServerError(s, r)
          /\ UNCHANGED nextEntry
       \/ /\ r.local[1] /\ r.target \in DOMAIN posts
          /\ LET comments == posts[r.target].comments
                 newComment == [id |-> nextEntry, text |-> r.body[1], name |-> r.user,
                                user |-> r.user]
             IN  Await(s, [r EXCEPT !.pc = "save", !.local = <<comments>>,
                                    !.out = <<Unshift(comments, newComment)>>])
          /\ nextEntry' = nextEntry + 1
    /\ UNCHANGED <<store, nextProfile, nextPost, acctDeleted, client>>

CommentRemoveIndexById(comments, u, commentId) == IndexOfKey(CommentIds(comments), commentId)

\* removeIndex = post.comments.map((comment) => comment.user.toString())
\*                            .indexOf(req.user.id)
CommentRemoveIndex(comments, u, commentId) == IndexOfKey(CommentUsers(comments), u)

\* DELETE api/posts/comment/:id/:comment_id
DeleteComment(s, u, id, commentId) ==
    /\ Arrive(s, u)
    /\ LET r == Begin("deleteComment", u, id, <<commentId>>) IN
       \/ ServerError(s, r)
       \/ /\ id \notin DOMAIN posts          \* CastError, or post.comments on null throws
          /\ ServerError(s, r)
       \/ /\ id \in DOMAIN posts
          /\ LET comments == posts[id].comments
                 found == IndexOfKey(CommentIds(comments), commentId)  \* comments.find
                 read == [r EXCEPT !.local = <<comments>>]
             IN  IF found = -1
                 THEN Respond(s, read, 404, <<"Comment does not exist">>)
                 ELSE IF comments[found + 1].user # u
                 THEN Respond(s, read, 401, <<"User not authorised">>)
                 ELSE Await(s, [read EXCEPT !.pc = "save",
                                  !.out = <<Splice1(comments,
                                              CommentRemoveIndex(comments, u, commentId))>>])
    /\ UNCHANGED <<store, nextProfile, nextPost, nextEntry, client>>

\* await post.save(); res.json(post.comments)
CommentsSave(s) ==
    /\ reqs[s].op \in {"addComment", "deleteComment"} /\ reqs[s].pc = "save"
    /\ \/ /\ ServerError(s, reqs[s])
          /\ UNCHANGED posts
       \/ /\ posts' = IF reqs[s].target \in DOMAIN posts
                      THEN [posts EXCEPT ![reqs[s].target].comments =
                                             SaveList(@, reqs[s].out[1])]
                      ELSE posts
          /\ Respond(s, reqs[s], 200, reqs[s].out)
    /\ UNCHANGED <<users, profiles, nextProfile, nextPost, nextEntry, acctDeleted, client>>

\* --------------------------------------------------------------- profiles
ScalarFields == {"company", "website", "location", "bio", "status", "githubusername"}
Platforms == {"youtube", "twitter", "facebook", "linkedin", "instagram"}

\* A skill as a string: leading blanks, the word, trailing blanks.
Skill(pre, word, post) == [pre |-> pre, word |-> word, post |-> post]

\* " " + skill.trim()
TrimSkill(piece) == Skill(1, piece.word, 0)

\* Array.isArray(skills) ? skills : skills.split(",").map((skill) => " " + skill.trim())
\* (a string is given as its comma-separated pieces)
NormalizeSkills(skills) ==
    IF skills.isArray THEN skills.items
    ELSE [i \in 1..Len(skills.items) |-> TrimSkill(skills.items[i])]

NoBody == [company |-> "", website |-> "", location |-> "", bio |-> "", status |-> "",
           githubusername |-> "", skills |-> [isArray |-> FALSE, items |-> <<>>],
           youtube |-> "", twitter |-> "", facebook |-> "", linkedin |-> "", instagram |-> ""]

BodyA == [NoBody EXCEPT !.status = "developer", !.company = "acme", !.website = "a.io",
              !.skills = [isArray |-> FALSE,
                          items |-> <<Skill(0, "a", 0), Skill(1, "b", 1), Skill(0, "c", 0)>>],
              !.youtube = "yt/a", !.linkedin = "li/a"]
BodyB == [NoBody EXCEPT !.status = "senior", !.location = "leeds", !.bio = "hi",
              !.skills = [isArray |-> TRUE, items |-> <<Skill(0, "js", 0)>>],
              !.twitter = "tw/b", !.facebook = "fb/b", !.instagram = "ig/b"]
BodyC == [NoBody EXCEPT !.status = "student", !.githubusername = "gh-c",
              !.skills = [isArray |-> FALSE, items |-> <<Skill(0, "go", 1)>>]]
BodyNoStatus == [BodyA EXCEPT !.status = ""]
BodyNoSkills == [BodyB EXCEPT !.skills = [isArray |-> FALSE, items |-> <<>>]]

ProfileBodies == {BodyA, BodyB, BodyC, BodyNoStatus, BodyNoSkills}

\* check("status").not().isEmpty(), check("skills").not().isEmpty()
ProfileBodyValid(body) == body.status # "" /\ body.skills.items # <<>>

\* const profileFields = {}; ... if (company) profileFields.company = company; ...
\* profileFields.social = {}; if (youtube) profileFields.social.youtube = youtube; ...
BuildProfileFields(u, body) ==
    [user    |-> u,
     scalars |-> [f \in {g \in ScalarFields : body[g] # ""} |-> body[f]],
     skills  |-> IF body.skills.items # <<>> THEN <<NormalizeSkills(body.skills)>> ELSE <<>>,
     social  |-> [p \in {q \in Platforms : body[q] # ""} |-> body[p]]]

\* The documents of one owner, and the one findOne({ user }) returns (the
\* first in insertion order).
ProfilesOf(u) == {i \in DOMAIN profiles : profiles[i].user = u}
Min(S) == CHOOSE i \in S : \A j \in S : i <= j
FindOneProfile(u) == IF ProfilesOf(u) = {} THEN <<>> ELSE <<profiles[Min(ProfilesOf(u))]>>

\* { $set: profileFields }: every path named in profileFields is replaced
SetFields(doc, pf) ==
    [doc EXCEPT !.user = pf.user,
                !.scalars = [f \in ScalarFields |->
                                IF f \in DOMAIN pf.scalars THEN pf.scalars[f] ELSE doc.scalars[f]],
                !.skills = IF pf.skills # <<>> THEN pf.skills[1] ELSE doc.skills,
                !.social = pf.social]

\* new Profile(profileFields)
NewProfile(id, pf) ==
    SetFields([id |-> id, user |-> pf.user, scalars |-> [f \in ScalarFields |-> ""],
               skills |-> <<>>, social |-> <<>>, experience |-> <<>>, education |-> <<>>], pf)

UpsertBranchAlwaysInsert(found) == "insert"

\* if (profile) { ... findOneAndUpdate ... } else new Profile(...).save()
UpsertBranch(found) == IF found # <<>> THEN "update" ELSE "insert"

\* POST api/profile
UpsertProfile(s, u, body) ==
    /\ Arrive(s, u)
    /\ LET r == Begin("upsert", u, 0, <<body>>) IN
       \/ /\ ~ProfileBodyValid(body)
          /\ Respond(s, r, 400, <<"errors">>)
       \/ /\ ProfileBodyValid(body)          \* Profile.findOne({ user })
          /\ \/ ServerError(s, r)
             \/ /\ nextProfile <= MaxProfiles \/ UpsertBranch(FindOneProfile(u)) = "update"
                /\ Await(s, [r EXCEPT !.pc = UpsertBranch(FindOneProfile(u)),
                                      !.local = FindOneProfile(u)])
    /\ UNCHANGED <<store, nextProfile, nextPost, nextEntry, client>>

\* Profile.findOneAndUpdate({ user }, { $set: profileFields }, { new: true })
UpsertUpdate(s) ==
    /\ reqs[s].op = "upsert" /\ reqs[s].pc = "update"
    /\ LET u  == reqs[s].user
           pf == BuildProfileFields(u, reqs[s].body[1]) IN
       \/ /\ ServerError(s, reqs[s])
          /\ UNCHANGED profiles
       \/ /\ ProfilesOf(u) = {}              \* nothing matches: null is returned
          /\ Respond(s, reqs[s], 200, <<>>)
          /\ UNCHANGED profiles
       \/ /\ ProfilesOf(u) # {}
          /\ LET i == Min(ProfilesOf(u)) IN
             /\ profiles' = [profiles EXCEPT ![i] = SetFields(@, pf)]
             /\ Respond(s, reqs[s], 200, <<SetFields(profiles[i], pf)>>)
    /\ UNCHANGED <<users, posts, nextProfile, nextPost, nextEntry, acctDeleted, client>>

\* profile = new Profile(profileFields); await profile.save()
UpsertInsert(s) ==
    /\ reqs[s].op = "upsert" /\ reqs[s].pc = "insert"
    /\ \/ /\ ServerError(s, reqs[s])
          /\ UNCHANGED <<profiles, nextProfile>>
       \/ LET doc == NewProfile(nextProfile, BuildProfileFields(reqs[s].user, reqs[s].body[1])) IN
          /\ nextProfile <= MaxProfiles
          /\ profiles' = [i \in DOMAIN profiles \cup {nextProfile} |->
                             IF i = nextProfile THEN doc ELSE profiles[i]]
          /\ nextProfile' = nextProfile + 1
          /\ Respond(s, reqs[s], 200, <<doc>>)
    /\ UNCHANGED <<users, posts, nextPost, nextEntry, acctDeleted, client>>

\* GET api/profile/me
GetMe(s, u) ==
    /\ Arrive(s, u)
    /\ LET r == Begin("getMe", u, 0, <<>>) IN
       \/ ServerError(s, r)
       \/ /\ FindOneProfile(u) = <<>>
          /\ Respond(s, r, 400, <<"There is no profile associated with this user">>)
       \/ /\ FindOneProfile(u) # <<>>
          /\ Respond(s, r, 200, FindOneProfile(u))
    /\ UNCHANGED <<store, nextProfile, nextPost, nextEntry, client>>

\* DELETE api/profile: await Post.deleteMany({ user: req.user.id })
DeleteAccount(s, u) ==
    /\ Arrive(s, u)
    /\ LET r == Begin("deleteAccount", u, 0, <<>>) IN
       \/ /\ ServerError(s, r)
          /\ UNCHANGED posts
       \/ /\ posts' = [i \in {j \in DOMAIN posts : posts[j].user # u} |-> posts[i]]
          /\ Await(s, [r EXCEPT !.pc = "profile"])
    /\ UNCHANGED <<users, profiles, nextProfile, nextPost, nextEntry, client>>

\* await Profile.findOneAndRemove({ user: req.user.id })
DeleteAccountProfile(s) ==
    /\ reqs[s].op = "deleteAccount" /\ reqs[s].pc = "profile"
    /\ LET u == reqs[s].user IN
       \/ /\ ServerError(s, reqs[s])
          /\ UNCHANGED profiles
       \/ /\ profiles' = IF ProfilesOf(u) = {} THEN profiles
                         ELSE [i \in DOMAIN profiles \ {Min(ProfilesOf(u))} |-> profiles[i]]
          /\ Await(s, [reqs[s] EXCEPT !.pc = "user"])
    /\ UNCHANGED <<users, posts, nextProfile, nextPost, nextEntry, acctDeleted, client>>

\* await User.findOneAndRemove({ _id: req.user.id }); res.json({ msg: "User deleted" })
DeleteAccountUser(s) ==
    /\ reqs[s].op = "deleteAccount" /\ reqs[s].pc = "user"
    /\ LET u == reqs[s].user IN
       \/ /\ ServerError(s, reqs[s])
          /\ UNCHANGED <<users, acctDeleted>>
       \/ /\ users' = users \ {u}
          /\ acctDeleted' = IF reqs[s].alone THEN acctDeleted \cup {u} ELSE acctDeleted
          /\ Respond(s, reqs[s], 200, <<"User deleted">>)
    /\ UNCHANGED <<profiles, posts, nextProfile, nextPost, nextEntry, client>>

\* ------------------------------------------------- experience / education
NoExperience == [title |-> "", company |-> "", location |-> "", from |-> "", to |-> "",
                 current |-> FALSE, description |-> ""]
ExpA == [NoExperience EXCEPT !.title = "dev", !.company = "acme", !.from = "2019"]
ExpB == [NoExperience EXCEPT !.title = "lead", !.company = "init", !.from = "2021",
                             !.current = TRUE]
ExpNoTitle == [ExpA EXCEPT !.title = ""]
ExperienceBodies == {ExpA, ExpB, ExpNoTitle}

NoEducation == [school |-> "", degree |-> "", fieldofstudy |-> "", from |-> "", to |-> "",
                current |-> FALSE, description |-> ""]
EduA == [NoEducation EXCEPT !.school = "leeds", !.degree = "bsc", !.from = "2015"]
EduB == [NoEducation EXCEPT !.school = "york", !.degree = "msc", !.fieldofstudy = "cs",
                            !.from = "2018"]
EduNoFrom == [EduB EXCEPT !.from = ""]
EducationBodies == {EduA, EduB, EduNoFrom}

\* check("title"), check("company"), check("from"): .not().isEmpty()
ExperienceValid(body) == body.title # "" /\ body.company # "" /\ body.from # ""

\* check("school"), check("degree"), check("from"): .not().isEmpty();
\* check("fieldofstudy") has no validator
EducationValid(body) == body.school # "" /\ body.degree # "" /\ body.from # ""

\* The sub-document the array cast makes of newExp / newEdu: the fields, with an _id.
Entry(id, body) == [id |-> id, fields |-> body]

AddEntryAtEnd(list, entry) == Append(list, entry)

\* profile.experience.unshift(newExp)
AddEntry(list, entry) == Unshift(list, entry)

\* PUT api/profile/experience
AddExperience(s, u, body) ==
    /\ Arrive(s, u)
    /\ nextEntry <= MaxEntries
    /\ LET r == Begin("addExperience", u, 0, <<body>>) IN
       \/ /\ ~ExperienceValid(body)
          /\ Respond(s, r, 400, <<"errors">>)
          /\ UNCHANGED nextEntry
       \/ /\ ExperienceValid(body)           \* Profile.findOne({ user })
          /\ \/ /\ ServerError(s, r)
                /\ UNCHANGED nextEntry
             \/ /\ FindOneProfile(u) = <<>>  \* profile.experience on null throws:
                /\ Respond(s, r, 500, <<"Server error">>)            \* the catch block
                /\ UNCHANGED nextEntry
             \/ /\ FindOneProfile(u) # <<>>
                /\ LET profile == FindOneProfile(u)[1] IN
                   Await(s, [r EXCEPT !.pc = "save", !.target = profile.id,
                                      !.local = <<profile.experience>>,
                                      !.out = <<[profile EXCEPT !.experience =
                                                  AddEntry(@, Entry(nextEntry, body))]>>])
                /\ nextEntry' = nextEntry + 1
    /\ UNCHANGED <<store, nextProfile, nextPost, client>>

\* await profile.save(); res.json(profile)  -- the modified array is written whole
AddExperienceSave(s) ==
    /\ reqs[s].op = "addExperience" /\ reqs[s].pc = "save"
    /\ \/ /\ ServerError(s, reqs[s])
          /\ UNCHANGED profiles
       \/ /\ reqs[s].target \notin DOMAIN profiles
          /\ Respond(s, reqs[s], 200, reqs[s].out)
          /\ UNCHANGED profiles
       \/ /\ reqs[s].target \in DOMAIN profiles
          /\ profiles' = [profiles EXCEPT ![reqs[s].target].experience =
                                              SaveList(@, reqs[s].out[1].experience)]
          /\ Respond(s, [reqs[s] EXCEPT !.over = <<profiles[reqs[s].target].experience>>], 200,
                     reqs[s].out)
    /\ UNCHANGED <<users, posts, nextProfile, nextPost, nextEntry, acctDeleted, client>>

\* PUT api/profile/education
AddEducation(s, u, body) ==
    /\ Arrive(s, u)
    /\ nextEntry <= MaxEntries
    /\ LET r == Begin("addEducation", u, 0, <<body>>) IN
       \/ /\ ~EducationValid(body)
          /\ Respond(s, r, 400, <<"errors">>)
          /\ UNCHANGED nextEntry
       \/ /\ EducationValid(body)
          /\ \/ /\ ServerError(s, r)
                /\ UNCHANGED nextEntry
             \/ /\ FindOneProfile(u) = <<>>  \* profile.education on null throws:
                /\ Respond(s, r, 500, <<"Server error">>)            \* the catch block
                /\ UNCHANGED nextEntry
             \/ /\ FindOneProfile(u) # <<>>
                /\ LET profile == FindOneProfile(u)[1] IN
                   Await(s, [r EXCEPT !.pc = "save", !.target = profile.id,
                                      !.local = <<profile.education>>,
                                      !.out = <<[profile EXCEPT !.education =
                                                  AddEntry(@, Entry(nextEntry, body))]>>])
                /\ nextEntry' = nextEntry + 1
    /\ UNCHANGED <<store, nextProfile, nextPost, client>>

AddEducationSave(s) ==
    /\ reqs[s].op = "addEducation" /\ reqs[s].pc = "save"
    /\ \/ /\ ServerError(s, reqs[s])
          /\ UNCHANGED profiles
       \/ /\ profiles' = IF reqs[s].target \in DOMAIN profiles
                         THEN [profiles EXCEPT ![reqs[s].target].education =
                                                   SaveList(@, reqs[s].out[1].education)]
                         ELSE profiles
          /\ Respond(s, reqs[s], 200, reqs[s].out)
    /\ UNCHANGED <<users, posts, nextProfile, nextPost, nextEntry, acctDeleted, client>>

\* The ids a remove request can name: those of the entries made, and one of none.
EntryIdInputs == {BadId} \cup 1..MaxEntries

EntryIds(list) == [i \in 1..Len(list) |-> list[i].id]

EntryRemoveIndexOrEnd(list, id) ==
    IF IndexOfKey(EntryIds(list), id) = -1 THEN Len(list) ELSE IndexOfKey(EntryIds(list), id)

\* removeIndex = profile.experience.map((item) => item.id).indexOf(req.params.exp_id)
EntryRemoveIndex(list, id) == IndexOfKey(EntryIds(list), id)

\* profile.experience.splice(removeIndex, 1)
RemoveEntry(list, id) == Splice1(list, EntryRemoveIndex(list, id))

\* DELETE api/profile/experience/:exp_id
RemoveExperience(s, u, id) ==
    /\ Arrive(s, u)
    /\ LET r == Begin("removeExperience", u, 0, <<id>>) IN
       \/ ServerError(s, r)                  \* Profile.findOne({ user })
       \/ /\ FindOneProfile(u) = <<>>        \* profile.experience on null throws
          /\ ServerError(s, r)
       \/ /\ FindOneProfile(u) # <<>>
          /\ LET profile == FindOneProfile(u)[1] IN
             Await(s, [r EXCEPT !.pc = "save", !.target = profile.id,
                                !.local = <<profile.experience>>,
                                !.out = <<[profile EXCEPT !.experience =
                                            RemoveEntry(@, id)]>>])
    /\ UNCHANGED <<store, nextProfile, nextPost, nextEntry, client>>

\* await profile.save(); res.json(profile)
RemoveExperienceSave(s) ==
    /\ reqs[s].op = "removeExperience" /\ reqs[s].pc = "save"
    /\ \/ /\ ServerError(s, reqs[s])
          /\ UNCHANGED profiles
       \/ /\ profiles' = IF reqs[s].target \in DOMAIN profiles
                         THEN [profiles EXCEPT ![reqs[s].target].experience =
                                                   SaveList(@, reqs[s].out[1].experience)]
                         ELSE profiles
          /\ Respond(s, reqs[s], 200, reqs[s].out)
    /\ UNCHANGED <<users, posts, nextProfile, nextPost, nextEntry, acctDeleted, client>>

\* DELETE api/profile/education/:edu_id
RemoveEducation(s, u, id) ==
    /\ Arrive(s, u)
    /\ LET r == Begin("removeEducation", u, 0, <<id>>) IN
       \/ ServerError(s, r)
       \/ /\ FindOneProfile(u) = <<>>
          /\ ServerError(s, r)
       \/ /\ FindOneProfile(u) # <<>>
          /\ LET profile == FindOneProfile(u)[1] IN
             Await(s, [r EXCEPT !.pc = "save", !.target = profile.id,
                                !.local = <<profile.education>>,
                                !.out = <<[profile EXCEPT !.education =
                                            RemoveEntry(@, id)]>>])
    /\ UNCHANGED <<store, nextProfile, nextPost, nextEntry, client>>

RemoveEducationSave(s) ==
    /\ reqs[s].op = "removeEducation" /\ reqs[s].pc = "save"
    /\ \/ /\ ServerError(s, reqs[s])
          /\ UNCHANGED profiles
       \/ /\ profiles' = IF reqs[s].target \in DOMAIN profiles
                         THEN [profiles EXCEPT ![reqs[s].target].education =
                                                   SaveList(@, reqs[s].out[1].education)]
                         ELSE profiles
          /\ Respond(s, reqs[s], 200, reqs[s].out)
    /\ UNCHANGED <<users, posts, nextProfile, nextPost, nextEntry, acctDeleted, client>>

\* ------------------------------------------------------ repository lookup
GithubUsernames == {"alice", "bob"}

\* What request(options, callback) hands to the callback: a transport error
\* with no response, or a response with its status and body.
TransportError == [error |-> TRUE, statusCode |-> 0, body |-> <<>>]
UpstreamReply(code, body) == [error |-> FALSE, statusCode |-> code, body |-> <<body>>]

\* The upstream body as text: its layout and the JSON value it denotes.
RepoBodies == {[pretty |-> FALSE, value |-> <<>>],
               [pretty |-> TRUE,  value |-> <<"repo1">>],
               [pretty |-> FALSE, value |-> <<"repo1", "repo2">>]}
UpstreamOutcomes ==
    {TransportError}
      \cup {UpstreamReply(200, b) : b \in RepoBodies}
      \cup {UpstreamReply(c, [pretty |-> FALSE, value |-> <<"Not Found">>]) : c \in {403, 404, 500}}

\* JSON.parse(body)
JsonParse(text) == text.value

\* GET api/profile/github/:username -- up to the call of request(options, callback)
GithubLookup(s, username) ==
    /\ Arrive(s, "")
    /\ LET r == Begin("github", "", 0, <<username>>) IN
       \/ ServerError(s, r)                  \* config.get("githubToken") throws
       \/ Await(s, [r EXCEPT !.pc = "upstream"])
    /\ UNCHANGED <<store, nextProfile, nextPost, nextEntry, client>>

\* response.statusCode, read in the callback
ResponseStatus(outcome) == IF outcome.error THEN <<>> ELSE <<outcome.statusCode>>

\* The callback (error, response, body) => { ... }.  It runs after the handler
\* has returned, outside its try block: what it throws reaches no catch and no
\* response is sent.
GithubCallback(s, outcome) ==
    /\ reqs[s].op = "github" /\ reqs[s].pc = "upstream"
    /\ LET r == [reqs[s] EXCEPT !.local = <<outcome>>] IN
       IF ResponseStatus(outcome) = <<>>
       THEN Await(s, [r EXCEPT !.pc = "thrown"])    \* statusCode of undefined
       ELSE IF ResponseStatus(outcome)[1] # 200
            THEN Respond(s, r, 404, <<"No Github profile found">>)
            ELSE Respond(s, r, 200, <<JsonParse(outcome.body[1])>>)
    /\ UNCHANGED <<store, nextProfile, nextPost, nextEntry, acctDeleted, client>>

\* ------------------------------------------------- client action creators
\* client/src/actions/profile.js: each creator is a thunk that awaits one axios call
\* and dispatches on its outcome.
ActionCreators == {"getCurrentProfile", "getProfiles", "getProfileById", "getGithubRepos",
                   "createProfile", "addExperience", "addEducation", "deleteExperience",
                   "deleteEducation", "deleteAccount"}

\* The value of a property that is not there.
Undefined == "undefined"

\* The statuses the API answers with other than 2xx, and their reason phrases.
ErrorStatuses == {400, 401, 404, 500}
StatusText(code) ==
    CASE code = 400 -> "Bad Request"
      [] code = 401 -> "Unauthorized"
      [] code = 404 -> "Not Found"
      [] code = 500 -> "Internal Server Error"

\* response.data.errors of an error answer: the validation messages; <<>> when the body
\* has no errors array ({ msg }, or the text "Server error").
ErrorLists == {<<>>, <<"Status is required">>, <<"Status is required", "Skills is required">>}

\* The error axios rejects with for an answer outside 2xx: message is a string,
\* response the answer.
HttpError(code, errors) ==
    [message |-> "Request failed with status code",
     response |-> [status |-> code, statusText |-> StatusText(code),
                   data |-> [errors |-> errors]]]
HttpErrors == {HttpError(code, errors) : code \in ErrorStatuses, errors \in ErrorLists}

\* res.data of a 2xx answer.
ResponseData == {"data1", "data2"}

\* dispatch(setAlert(msg, alertType))
setAlert(msg, alertType) == [type |-> "SET_ALERT", payload |-> [msg |-> msg, status |-> alertType]]

\* Which property of err each catch block reads the errors array from
\* (err.X.data.errors), "none" where the block reads none.
ErrorsFrom(creator) ==
    CASE creator \in {"createProfile", "addEducation"} -> "message"
      [] creator = "addExperience" -> "response"
      [] OTHER -> "none"

\* Which property of err each catch block builds the payload from
\* (err.X.statusText, err.X.status).
PayloadFrom(creator) ==
    IF creator \in {"getCurrentProfile", "getProfiles", "getProfileById", "getGithubRepos",
                    "addExperience"}
    THEN "message" ELSE "response"

\* err.message is a string: a property read of it (statusText, status, data) gives
\* undefined, and a property read of that undefined (data.errors) throws a TypeError.
CatchThrows(creator) == ErrorsFrom(creator) = "message"

\* errors.forEach((error) => dispatch(setAlert(error.msg, "danger")))
ErrorAlerts(creator, err) ==
    IF ErrorsFrom(creator) = "response"
    THEN [i \in 1..Len(err.response.data.errors) |->
             setAlert(err.response.data.errors[i], "danger")]
    ELSE <<>>

\* dispatch({ type: PROFILE_ERROR, payload: { msg: err.X.statusText, status: err.X.status } })
ProfileError(creator, err) ==
    [type |-> "PROFILE_ERROR",
     payload |-> IF PayloadFrom(creator) = "message"
                 THEN [msg |-> Undefined, status |-> Undefined]
                 ELSE [msg |-> err.response.statusText, status |-> err.response.status]]

\* What the try block dispatches after the awaited call resolved.
SuccessActions(creator, edit, data) ==
    CASE creator \in {"getCurrentProfile", "getProfileById"} ->
             <<[type |-> "GET_PROFILE", payload |-> data]>>
      [] creator = "getProfiles" -> <<[type |-> "GET_PROFILES", payload |-> data]>>
      [] creator = "getGithubRepos" -> <<[type |-> "GET_REPOS", payload |-> data]>>
      [] creator = "createProfile" ->
             <<[type |-> "GET_PROFILE", payload |-> data],
               setAlert(IF edit THEN "Profile updated successfully"
                                ELSE "Profile created successfully", "success")>>
      [] creator = "addExperience" ->
             <<[type |-> "UPDATE_PROFILE", payload |-> data],
               setAlert("Experience added successfully", "success")>>
      [] creator = "addEducation" ->
             <<[type |-> "UPDATE_PROFILE", payload |-> data],
               setAlert("Education added successfully", "success")>>
      [] creator = "deleteExperience" ->
             <<[type |-> "UPDATE_PROFILE", payload |-> data],
               setAlert("Experience removed", "success")>>
      [] creator = "deleteEducation" ->
             <<[type |-> "UPDATE_PROFILE", payload |-> data],
               setAlert("Education removed", "success")>>
      [] creator = "deleteAccount" ->
             <<[type |-> "CLEAR_PROFILE", payload |-> Undefined],
               [type |-> "ACCOUNT_DELETED", payload |-> Undefined],
               setAlert("Your account has now been deleted", Undefined)>>

\* history.push("/dashboard")
Redirects(creator) == creator \in {"createProfile", "addExperience", "addEducation"}

\* No creator running; dispatched is what the latest call dispatched, location the
\* route the latest history.push left.
ClientIdle == [pc |-> "idle", creator |-> "", edit |-> FALSE, failed |-> FALSE,
               dispatched |-> <<>>, location |-> "/"]

\* The creator is called and runs up to its await; deleteAccount asks window.confirm
\* first and does nothing when the answer is no.
ClientCall(creator, edit, confirmed) ==
    /\ client.pc # "awaiting"
    /\ client' =
         IF creator = "deleteAccount" /\ ~confirmed
         THEN [ClientIdle EXCEPT !.pc = "done", !.creator = creator,
                                 !.location = client.location]
         ELSE [ClientIdle EXCEPT
                 !.pc = "awaiting", !.creator = creator,
                 !.edit = (creator = "createProfile" /\ edit),
                 !.location = client.location,
                 !.dispatched = IF creator = "getProfiles"
                                THEN <<[type |-> "CLEAR_PROFILE", payload |-> Undefined]>>
                                ELSE <<>>]
    /\ UNCHANGED <<store, nextProfile, nextPost, nextEntry, reqs, resp, acctDeleted>>

\* The awaited call resolves: the rest of the try block.
ClientResolve(data) ==
    /\ client.pc = "awaiting"
    /\ client' = [client EXCEPT
                    !.pc = "done",
                    !.dispatched = @ \o SuccessActions(client.creator, client.edit, data),
                    !.location = IF Redirects(client.creator) THEN "/dashboard" ELSE @]
    /\ UNCHANGED <<store, nextProfile, nextPost, nextEntry, reqs, resp, acctDeleted>>

\* The awaited call rejects with an HTTP error: the catch block, which either runs to
\* its end or throws, leaving the thunk's promise rejected.
ClientReject(err) ==
    /\ client.pc = "awaiting"
    /\ client' =
         IF CatchThrows(client.creator)
         THEN [client EXCEPT !.pc = "rejected", !.failed = TRUE]
         ELSE [client EXCEPT
                 !.pc = "done", !.failed = TRUE,
                 !.dispatched = @ \o ErrorAlerts(client.creator, err)
                                  \o <<ProfileError(client.creator, err)>>]
    /\ UNCHANGED <<store, nextProfile, nextPost, nextEntry, reqs, resp, acctDeleted>>

\* ------------------------------------------------------------------ specs
Init ==
    /\ users = Users
    /\ profiles = <<>>
    /\ posts = <<>>
    /\ nextProfile = 1
    /\ nextPost = 1
    /\ nextEntry = 1
    /\ reqs = [s \in Slots |-> Idle]
    /\ resp = Idle
    /\ acctDeleted = {}
    /\ client = ClientIdle

\* Concurrent requests of two users on the posts.
Members == {"u1", "u2"}

NextPosts ==
    \E s \in Slots :
        \/ \E u \in Members, text \in PostTexts : CreatePost(s, u, text)
        \/ CreatePostSave(s)
        \/ \E u \in Members, id \in PostIdInputs : DeletePost(s, u, id)
        \/ DeletePostRemove(s)
        \/ \E u \in Members, id \in PostIds : Like(s, u, id)
        \/ \E u \in Members, id \in PostIds : Unlike(s, u, id)
        \/ LikesSave(s)

SpecPosts == Init /\ [][NextPosts]_vars

\* Concurrent requests of one account.
Owners == {"u1"}
OwnerBodies == {BodyA, BodyB, BodyNoStatus}

NextProfile ==
    \E s \in Slots :
        \/ \E u \in Owners, body \in OwnerBodies : UpsertProfile(s, u, body)
        \/ UpsertUpdate(s)
        \/ UpsertInsert(s)
        \/ \E u \in Owners : GetMe(s, u)
        \/ \E u \in Owners : DeleteAccount(s, u)
        \/ DeleteAccountProfile(s)
        \/ DeleteAccountUser(s)
        \/ \E u \in Owners : CreatePost(s, u, "hello")
        \/ CreatePostSave(s)

Spec == Init /\ [][NextProfile]_vars

\* Concurrent requests that build the lists of one profile.
NextEntries ==
    \E s \in Slots :
        \/ \E u \in Owners : UpsertProfile(s, u, BodyC)
        \/ UpsertUpdate(s)
        \/ UpsertInsert(s)
        \/ \E u \in Owners, body \in ExperienceBodies : AddExperience(s, u, body)
        \/ AddExperienceSave(s)
        \/ \E u \in Owners, body \in EducationBodies : AddEducation(s, u, body)
        \/ AddEducationSave(s)

SpecEntries == Init /\ [][NextEntries]_vars

\* Requests served one after the other, each to completion.
SeqSlots == {1}
SeqBodies == {BodyA, BodyB, BodyNoStatus, BodyNoSkills}

NextSeq ==
    \E s \in SeqSlots :
    \/ \E u \in Members, body \in SeqBodies : UpsertProfile(s, u, body)
    \/ UpsertUpdate(s)
    \/ UpsertInsert(s)
    \/ \E u \in Members : GetMe(s, u)
    \/ \E u \in Members : DeleteAccount(s, u)
    \/ DeleteAccountProfile(s)
    \/ DeleteAccountUser(s)
    \/ \E u \in Members, text \in PostTexts : CreatePost(s, u, text)
    \/ CreatePostSave(s)

SpecSeq == Init /\ [][NextSeq]_vars

\* Concurrent Like and Unlike requests of every user on one post of u1.
InitLikes ==
    /\ users = Users
    /\ profiles = <<>>
    /\ nextProfile = 1
    /\ nextEntry = 1
    /\ reqs = [s \in Slots |-> Idle]
    /\ resp = Idle
    /\ acctDeleted = {}
    /\ client = ClientIdle
    /\ posts = [i \in {1} |-> [id |-> 1, user |-> "u1", name |-> "u1", text |-> "hello",
                               likes |-> <<>>, comments |-> <<>>]]
    /\ nextPost = 2

NextLikes ==
    \E s \in Slots :
        \/ \E u \in Users : Like(s, u, 1)
        \/ \E u \in Users : Unlike(s, u, 1)
        \/ LikesSave(s)

SpecLikes == InitLikes /\ [][NextLikes]_vars

NextGithub ==
    \E s \in Slots :
        \/ \E username \in GithubUsernames : GithubLookup(s, username)
        \/ \E outcome \in UpstreamOutcomes : GithubCallback(s, outcome)

SpecGithub == Init /\ [][NextGithub]_vars

\* Requests that build and cut the lists of two profiles, served one after the other.
NextRemove ==
    \E s \in SeqSlots :
        \/ \E u \in Members : UpsertProfile(s, u, BodyC)
        \/ UpsertUpdate(s)
        \/ UpsertInsert(s)
        \/ \E u \in Members : AddExperience(s, u, ExpA)
        \/ AddExperienceSave(s)
        \/ \E u \in Members : AddEducation(s, u, EduA)
        \/ AddEducationSave(s)
        \/ \E u \in Members, id \in EntryIdInputs : RemoveExperience(s, u, id)
        \/ RemoveExperienceSave(s)
        \/ \E u \in Members, id \in EntryIdInputs : RemoveEducation(s, u, id)
        \/ RemoveEducationSave(s)

SpecRemove == Init /\ [][NextRemove]_vars

\* Concurrent comment requests of two users on one post of u1.
NextComments ==
    \E s \in Slots :
        \/ \E u \in Members, text \in CommentTexts : AddComment(s, u, 1, text)
        \/ AddCommentPost(s)
        \/ \E u \in Members, commentId \in EntryIdInputs : DeleteComment(s, u, 1, commentId)
        \/ CommentsSave(s)

SpecComments == InitLikes /\ [][NextComments]_vars

\* Concurrent Like requests of two users on one post of u1, and concurrent
\* add-experience requests of u1.
NextRace ==
    \E s \in Slots :
        \/ \E u \in Members : Like(s, u, 1)
        \/ LikesSave(s)
        \/ \E u \in Owners : UpsertProfile(s, u, BodyC)
        \/ UpsertUpdate(s)
        \/ UpsertInsert(s)
        \/ \E u \in Owners : AddExperience(s, u, ExpA)
        \/ AddExperienceSave(s)

SpecRace == InitLikes /\ [][NextRace]_vars

\* The client's action creators, one call at a time, against any answer of the API.
NextClient ==
    \/ \E creator \in ActionCreators, edit \in BOOLEAN, confirmed \in BOOLEAN :
          ClientCall(creator, edit, confirmed)
    \/ \E data \in ResponseData : ClientResolve(data)
    \/ \E err \in HttpErrors : ClientReject(err)

SpecClient == Init /\ [][NextClient]_vars

\* ----------------------------------------------------------------- claims
\* The vocabulary of the claims, independent of the handlers' own checks.
InLikeList(likes, u) == \E i \in 1..Len(likes) : likes[i].user = u
WithoutUser(likes, u) == SelectSeq(likes, LAMBDA like : like.user # u)
OwnsNothing(u) ==
    /\ \A i \in DOMAIN posts : posts[i].user # u
    /\ ProfilesOf(u) = {}
    /\ u \notin users

\* C1: in every reachable state no user id appears twice in the like list of
\* any post, whatever the interleaving of the reads and saves of Like and
\* Unlike requests (with posts created and deleted in between).
C1_LikesUnique ==
    \A i \in DOMAIN posts :
        \A a, b \in 1..Len(posts[i].likes) :
            a # b => posts[i].likes[a].user # posts[i].likes[b].user

\* Both users like the post, the second one's request answered last.
C1_Witness ==
    /\ resp.op = "like" /\ resp.status = 200
    /\ resp.target \in DOMAIN posts
    /\ Len(posts[resp.target].likes) = 2

\* C2: the store holds at most one profile document per user id, whatever the
\* interleaving of the store round-trips of upsert-profile and delete-account
\* requests.
C2_OneProfilePerUser == \A u \in Users : Cardinality(ProfilesOf(u)) <= 1

\* C3: with requests served one after the other, a successful upsert leaves
\* exactly one profile for its owner and returns it; when the owner already
\* had a profile it is that same document (updated), otherwise a new one.
C3_SequentialUpsert ==
    (resp.op = "upsert" /\ resp.status = 200) =>
        /\ Cardinality(ProfilesOf(resp.user)) = 1
        /\ resp.out # <<>>
        /\ resp.out[1].id \in DOMAIN profiles
        /\ profiles[resp.out[1].id] = resp.out[1]
        /\ resp.out[1].user = resp.user
        /\ IF resp.local # <<>>
           THEN resp.out[1].id = resp.local[1].id
           ELSE resp.out[1].id = nextProfile - 1

\* The second upsert of an owner: it found the profile the first one made.
C3_Witness ==
    /\ resp.op = "upsert" /\ resp.status = 200
    /\ resp.local # <<>>
    /\ resp.out # resp.local

\* C4: when a delete-account request of user U (that no other request ran
\* beside) has been answered with success, the store holds no post, no profile
\* and no user record of U, and the fetch-own-profile that U sends next is
\* answered 400.
C4_AccountGone ==
    /\ (resp.op = "deleteAccount" /\ resp.status = 200 /\ resp.alone) =>
           OwnsNothing(resp.user)
    /\ (resp.op = "getMe" /\ resp.after /\ resp.status # 500) => resp.status = 400

\* C5: a Like request of a user who appears in the like list it reads is
\* answered 400, and the step that answers it leaves the like list and the
\* rest of the store as they were.
C5_LikeConflict ==
    [][(resp'.op = "like" /\ resp'.local # <<>> /\ InLikeList(resp'.local[1], resp'.user)) =>
          /\ resp'.status = 400
          /\ store' = store
          /\ resp'.target \in DOMAIN posts
          /\ posts'[resp'.target].likes = resp'.local[1]]_vars

C5_Witness ==
    /\ resp.op = "like" /\ resp.status = 400
    /\ resp.local # <<>> /\ Len(resp.local[1]) = 2

\* C6: an Unlike request of a user who is not in the like list it reads is
\* answered 400 and the list stays as it is; when the user is in the list, the
\* list that is saved and returned is the list read without that user's entry,
\* the other entries in their order.
C6_Unlike ==
    (resp.op = "unlike" /\ resp.local # <<>>) =>
        IF InLikeList(resp.local[1], resp.user)
        THEN /\ resp.status = 200
             /\ resp.out[1] = WithoutUser(resp.local[1], resp.user)
             /\ Len(resp.out[1]) = Len(resp.local[1]) - 1
             /\ posts[resp.target].likes = resp.out[1]
        ELSE /\ resp.status = 400
             /\ posts[resp.target].likes = resp.local[1]

\* The middle one of three likes is taken out.
C6_Witness ==
    /\ resp.op = "unlike" /\ resp.status = 200
    /\ Len(resp.local[1]) = 3
    /\ resp.local[1][2].user = resp.user

\* C7: a step removes a post only as the successful delete-post of its author;
\* a caller who is not the author is answered 401 and a request for an absent
\* post 404, both with the store unchanged.
C7_DeletePost ==
    [][/\ \A i \in DOMAIN posts \ DOMAIN posts' :
             /\ resp'.op = "deletePost" /\ resp'.status = 200
             /\ resp'.target = i
             /\ posts[i].user = resp'.user
       /\ (resp'.op = "deletePost" /\ resp'.status # 500) =>
             IF resp'.target \notin DOMAIN posts
             THEN resp'.status \in {404, 200} /\ posts' = posts
             ELSE IF posts[resp'.target].user # resp'.user
                  THEN resp'.status = 401 /\ store' = store
                  ELSE resp'.status = 200
       /\ (resp'.op = "deletePost" /\ resp'.status = 404) =>
             resp'.target \notin DOMAIN posts /\ store' = store]_vars

C7_Witness ==
    /\ resp.op = "deletePost" /\ resp.status = 401
    /\ resp.target \in DOMAIN posts
    /\ posts[resp.target].user # resp.user

\* C8: a successful add-experience (add-education) request saves and returns
\* the list it read with the new entry put in front of it, so the second entry
\* added to an empty list comes before the first.
C8_HeadInsert ==
    (resp.op \in {"addExperience", "addEducation"} /\ resp.status = 200) =>
        LET list == IF resp.op = "addExperience" THEN resp.out[1].experience
                    ELSE resp.out[1].education
        IN  /\ Len(list) = Len(resp.local[1]) + 1
            /\ list[1].fields = resp.body[1]
            /\ \A i \in 1..Len(resp.local[1]) :
                   list[i+1] = resp.local[1][i] /\ list[1].id # resp.local[1][i].id
            /\ resp.target \in DOMAIN profiles =>
                   list = IF resp.op = "addExperience"
                          THEN profiles[resp.target].experience
                          ELSE profiles[resp.target].education

\* A second experience entry is in front of the first.
C8_Witness ==
    /\ resp.op = "addExperience" /\ resp.status = 200
    /\ Len(resp.local[1]) >= 1
    /\ resp.target \in DOMAIN profiles
    /\ Len(profiles[resp.target].experience) >= 2
    /\ profiles[resp.target].experience[1].id > profiles[resp.target].experience[2].id

\* C9: an upsert that updates an existing profile leaves every field that the
\* input does not supply as it was, each social-link platform included.
C9_PartialUpdate ==
    (resp.op = "upsert" /\ resp.status = 200 /\ resp.local # <<>> /\ resp.out # <<>>) =>
        LET old == resp.local[1]
            new == resp.out[1]
            body == resp.body[1]
        IN  /\ \A f \in ScalarFields : body[f] = "" => new.scalars[f] = old.scalars[f]
            /\ new.experience = old.experience /\ new.education = old.education
            /\ \A p \in Platforms : body[p] = "" =>
                   IF p \in DOMAIN old.social
                   THEN p \in DOMAIN new.social /\ new.social[p] = old.social[p]
                   ELSE p \notin DOMAIN new.social

\* C10: every repository lookup is answered: no handler ends without a
\* response, and the response is the upstream body for an upstream 200, the
\* 404 response for another upstream status and an error response for a
\* transport error.
C10_LookupAnswered ==
    /\ \A s \in Slots : reqs[s].op = "github" => reqs[s].pc = "upstream"
    /\ (resp.op = "github" /\ resp.local # <<>>) =>
           LET outcome == resp.local[1] IN
           IF outcome.error THEN resp.status = 500
           ELSE IF outcome.statusCode = 200
                THEN resp.status = 200 /\ resp.out = <<outcome.body[1].value>>
                ELSE resp.status = 404

\* C11: every client profile action creator whose API call fails with an HTTP error
\* response ends having dispatched exactly one PROFILE_ERROR action, whose payload has
\* the shape {msg, status}, and no success action.
SuccessTypes == {"GET_PROFILE", "GET_PROFILES", "GET_REPOS", "UPDATE_PROFILE", "ACCOUNT_DELETED"}
TypeCount(log, types) == Cardinality({i \in 1..Len(log) : log[i].type \in types})
C11_ProfileError ==
    client.failed =>
        /\ client.pc = "done"
        /\ TypeCount(client.dispatched, {"PROFILE_ERROR"}) = 1
        /\ \A i \in 1..Len(client.dispatched) :
              client.dispatched[i].type = "PROFILE_ERROR" =>
                  DOMAIN client.dispatched[i].payload = {"msg", "status"}
        /\ TypeCount(client.dispatched, SuccessTypes) = 0

\* C12: a delete-account request of U that no other request runs beside removes in the
\* order posts, profile, user record: the step of it that removes a profile of U finds
\* no post of U left, and the step of it that removes U's user record finds no post of
\* U left and leaves no profile of U behind; a step that fails removes nothing more.
C12_RemovalOrder ==
    [][\A s \in Slots :
         (reqs[s].op = "deleteAccount" /\ reqs[s].alone /\ reqs'[s] # reqs[s]) =>
            LET u == reqs[s].user IN
            /\ profiles' # profiles => \A i \in DOMAIN posts : posts[i].user # u
            /\ (u \in users /\ u \notin users') =>
                  /\ \A i \in DOMAIN posts' : posts'[i].user # u
                  /\ \A i \in DOMAIN profiles' : profiles'[i].user # u
            /\ resp'.status = 500 => store' = store]_vars

\* C13: a remove-experience (remove-education) request whose id is the id of no entry
\* of the non-empty list it reads removes the last entry of that list: it is answered
\* with success, and the list it saves and returns is the list read without its last
\* entry.
C13_NoMatchRemovesLast ==
    (/\ resp.op \in {"removeExperience", "removeEducation"}
     /\ resp.local # <<>> /\ resp.local[1] # <<>>
     /\ \A i \in 1..Len(resp.local[1]) : resp.local[1][i].id # resp.body[1]) =>
        LET list == IF resp.op = "removeExperience" THEN resp.out[1].experience
                    ELSE resp.out[1].education
        IN  /\ resp.status = 200
            /\ list = SubSeq(resp.local[1], 1, Len(resp.local[1]) - 1)
            /\ list # resp.local[1]
            /\ resp.target \in DOMAIN profiles =>
                   list = IF resp.op = "removeExperience"
                          THEN profiles[resp.target].experience
                          ELSE profiles[resp.target].education

\* An id of no entry has taken the older of two experience entries away.
C13_Witness ==
    /\ resp.op = "removeExperience" /\ resp.status = 200
    /\ resp.local # <<>> /\ Len(resp.local[1]) = 2
    /\ \A i \in 1..2 : resp.local[1][i].id # resp.body[1]
    /\ resp.target \in DOMAIN profiles
    /\ profiles[resp.target].experience = <<resp.local[1][1]>>

\* C14: a delete-comment request that names a comment of the caller in the list it
\* reads is answered with success and removes exactly one comment, the one at the
\* lowest position among the caller's comments: not the named one exactly when the
\* caller has a more recent comment (one nearer the head) on the post; the comments
\* of other authors all stay, in their order.
CallerPositions(comments, u) == {i \in 1..Len(comments) : comments[i].user = u}
C14_DeleteComment ==
    (/\ resp.op = "deleteComment" /\ resp.local # <<>>
     /\ \E i \in CallerPositions(resp.local[1], resp.user) :
           resp.local[1][i].id = resp.body[1]) =>
        LET before == resp.local[1]
            named  == CHOOSE i \in 1..Len(before) : before[i].id = resp.body[1]
            first  == CHOOSE i \in CallerPositions(before, resp.user) :
                         \A j \in CallerPositions(before, resp.user) : i <= j
        IN  /\ resp.status = 200
            /\ resp.out[1] = SubSeq(before, 1, first - 1) \o SubSeq(before, first + 1, Len(before))
            /\ (first # named) <=> (\E j \in CallerPositions(before, resp.user) : j < named)
            /\ SelectSeq(resp.out[1], LAMBDA c : c.user # resp.user)
                  = SelectSeq(before, LAMBDA c : c.user # resp.user)
            /\ resp.target \in DOMAIN posts => posts[resp.target].comments = resp.out[1]

\* The caller named the older of its two comments and the newer one went.
C14_Witness ==
    /\ resp.op = "deleteComment" /\ resp.status = 200
    /\ Len(resp.local[1]) = 3
    /\ resp.local[1][1].user = resp.user /\ resp.local[1][2].user # resp.user
    /\ resp.local[1][3].user = resp.user /\ resp.local[1][3].id = resp.body[1]
    /\ resp.target \in DOMAIN posts
    /\ posts[resp.target].comments = <<resp.local[1][2], resp.local[1][3]>>

\* C15: an add-experience (add-education) request with valid fields of a caller who
\* has no profile is answered with a not-found error (400 or 404), and the step that
\* answers it creates no profile and leaves the store as it was.
C15_NoProfile ==
    [][(/\ resp'.op \in {"addExperience", "addEducation"} /\ resp'.user # ""
        /\ ProfilesOf(resp'.user) = {}
        /\ IF resp'.op = "addExperience" THEN ExperienceValid(resp'.body[1])
                                         ELSE EducationValid(resp'.body[1])) =>
          /\ resp'.status \in {400, 404}
          /\ store' = store]_vars

\* C16: a Like answered with success stores the list its request read with the caller
\* in front, so a like that another request's save stored (and was answered with
\* success for) between that read and that save is lost: of two Like requests of two
\* users, their reads before either save, both are answered with success and one user
\* is left in the stored list. The same holds for the experience entries of two
\* add-experience requests on one profile.
C16_LostUpdate ==
    /\ (resp.op = "like" /\ resp.status = 200 /\ resp.over # <<>>) =>
          /\ resp.target \in DOMAIN posts
          /\ \A i \in 1..Len(resp.over[1]) :
                (/\ resp.over[1][i].user # resp.user
                 /\ ~InLikeList(resp.local[1], resp.over[1][i].user)) =>
                    ~InLikeList(posts[resp.target].likes, resp.over[1][i].user)
    /\ (resp.op = "addExperience" /\ resp.status = 200 /\ resp.over # <<>>) =>
          /\ resp.target \in DOMAIN profiles
          /\ \A i \in 1..Len(resp.over[1]) :
                (\A j \in 1..Len(resp.local[1]) : resp.local[1][j].id # resp.over[1][i].id) =>
                    \A j \in 1..Len(profiles[resp.target].experience) :
                       profiles[resp.target].experience[j].id # resp.over[1][i].id

\* The second of two racing Likes has been answered with success: it read an empty
\* list, found the other user's like stored, and has left its own alone.
C16_Witness ==
    /\ resp.op = "like" /\ resp.status = 200
    /\ resp.local = <<(<<>>)>>
    /\ resp.over # <<>> /\ Len(resp.over[1]) = 1 /\ resp.over[1][1].user # resp.user
    /\ LikeUsers(posts[resp.target].likes) = <<resp.user>>

============================================================================
